---------------------------- MODULE Spec2Model ----------------------------
(***************************************************************************)
(* dquicken: decoding of QUIC wire formats.                                *)
(*   src/src/packet.rs  FrameType, LongPacketType, LongHeader::from_slice  *)
(*   src/src/varint.rs  VarInt::decode                                     *)
(* The decoders are pure functions of a byte value or of a byte slice.     *)
(* A behaviour draws one input in Init and applies the functions to it.    *)
(* A Rust panic (index out of bounds, todo!()) is a result of kind "panic".*)
(***************************************************************************)
EXTENDS Integers, Sequences, FiniteSets, TLC

VARIABLES target, chain, buf, vres, hres, stdout

vars == <<target, chain, buf, vres, hres, stdout>>

(***************************************************************************)
(* Bounds of the input space.                                              *)
(***************************************************************************)
\* longest chain of alternating from_u8 / to_u8 applications (plus the input)
MaxChain == 3
\* bytes that follow the first byte of a generated varint buffer
MaxTail == 8
\* bytes that follow a generated long header in its datagram
MaxExtra == 1

\* the longest connection ID of QUIC version 1 (doc comment of LongHeader)
MaxCidLen == 20

(***************************************************************************)
(* u8 arithmetic: the operators the code applies to bytes.                 *)
(***************************************************************************)
U8 == 0..255

RECURSIVE BitAndN(_, _, _)
BitAndN(a, b, n) ==
    IF n = 0 THEN 0
    ELSE (IF a % 2 = 1 /\ b % 2 = 1 THEN 1 ELSE 0)
         + 2 * BitAndN(a \div 2, b \div 2, n - 1)

\* a & b on u8
BitAnd(a, b) == BitAndN(a, b, 8)

RECURSIVE Pow2(_)
Pow2(n) == IF n = 0 THEN 1 ELSE 2 * Pow2(n - 1)

\* a >> n on u8
Shr(a, n) == a \div Pow2(n)

\* a << n on u8 (the bits shifted out are lost)
Shl(a, n) == (a * Pow2(n)) % 256

(***************************************************************************)
(* Wide unsigned integers (u16, u32, u64).  A value is a sequence of       *)
(* NLimbs decimal limbs, most significant first, each in 0..Base-1, so     *)
(* that 64-bit values are exact.                                           *)
(***************************************************************************)
Base == 1000000
NLimbs == 4

Zero == [i \in 1..NLimbs |-> 0]

\* the limbs 1..i of n * m + c, c being the carry into limb i
RECURSIVE MulAddFrom(_, _, _, _)
MulAddFrom(n, m, c, i) ==
    IF i = 0 THEN <<>>
    ELSE LET t == n[i] * m + c
         IN  Append(MulAddFrom(n, m, t \div Base, i - 1), t % Base)

MulAdd(n, m, c) == MulAddFrom(n, m, c, NLimbs)

\* a u8 widened without change of value
Wide(v) == [i \in 1..NLimbs |-> IF i = NLimbs THEN v ELSE 0]

\* uN::from_be_bytes: the first byte is the most significant
RECURSIVE from_be_bytes(_)
from_be_bytes(bs) ==
    IF bs = <<>> THEN Zero
    ELSE MulAdd(from_be_bytes(SubSeq(bs, 1, Len(bs) - 1)), 256, bs[Len(bs)])

(***************************************************************************)
(* Slices.  Rust indexes from 0, TLA+ sequences from 1.                    *)
(***************************************************************************)
\* buf[i]
At(s, i) == s[i + 1]
\* &buf[from..to]
Slice(s, from, to) == SubSeq(s, from + 1, to)

IndexPanic(i, len) ==
    [kind |-> "panic", why |-> "index out of bounds", at |-> i, len |-> len]
RangePanic(end, len) ==
    [kind |-> "panic", why |-> "range end index out of range", at |-> end, len |-> len]
TodoPanic(msg) ==
    [kind |-> "panic", why |-> msg, at |-> 0, len |-> 0]

(***************************************************************************)
(* FrameType (packet.rs).  A value is [tag, n]; n is the carried u8, and   *)
(* -1 for the variants that carry nothing.                                 *)
(***************************************************************************)
Unit(tag) == [tag |-> tag, n |-> -1]
Carry(tag, num) == [tag |-> tag, n |-> num]

UnitTags == {"PADDING", "PING", "RESET_STREAM", "STOP_SENDING", "CRYPTO",
             "NEW_TOKEN", "MAX_DATA", "MAX_STREAM_DATA", "DATA_BLOCKED",
             "STREAM_DATA_BLOCKED", "NEW_CONNECTION_ID",
             "RETIRE_CONNECTION_ID", "PATH_CHALLENGE", "PATH_RESPONSE",
             "HANDSHAKE_DONE"}
CarryTags == {"ACK", "STREAM", "MAX_STREAMS", "STREAMS_BLOCKED",
              "CONNECTION_CLOSE", "UNKNOWN"}

\* every value the enum can hold
FrameType == {Unit(t) : t \in UnitTags}
             \cup {Carry(t, num) : t \in CarryTags, num \in U8}

\* mutation of from_u8: the ACK range excludes its upper end (0x02..0x03)
from_u8_ExclusiveAck(num) ==
    CASE num = 0 -> Unit("PADDING")
      [] num = 1 -> Unit("PING")
      [] num \in 2..2 -> Carry("ACK", num)
      [] num = 4 -> Unit("RESET_STREAM")
      [] num = 5 -> Unit("STOP_SENDING")
      [] num = 6 -> Unit("CRYPTO")
      [] num = 7 -> Unit("NEW_TOKEN")
      [] num \in 8..15 -> Carry("STREAM", num)
      [] num = 16 -> Unit("MAX_DATA")
      [] num = 17 -> Unit("MAX_STREAM_DATA")
      [] num \in 18..19 -> Carry("MAX_STREAMS", num)
      [] num = 20 -> Unit("DATA_BLOCKED")
      [] num = 21 -> Unit("STREAM_DATA_BLOCKED")
      [] num \in 22..23 -> Carry("STREAMS_BLOCKED", num)
      [] num = 24 -> Unit("NEW_CONNECTION_ID")
      [] num = 25 -> Unit("RETIRE_CONNECTION_ID")
      [] num = 26 -> Unit("PATH_CHALLENGE")
      [] num = 27 -> Unit("PATH_RESPONSE")
      [] num \in 28..29 -> Carry("CONNECTION_CLOSE", num)
      [] num = 30 -> Unit("HANDSHAKE_DONE")
      [] OTHER -> Carry("UNKNOWN", num)

from_u8(num) ==
    CASE num = 0 -> Unit("PADDING")
      [] num = 1 -> Unit("PING")
      [] num \in 2..3 -> Carry("ACK", num)
      [] num = 4 -> Unit("RESET_STREAM")
      [] num = 5 -> Unit("STOP_SENDING")
      [] num = 6 -> Unit("CRYPTO")
      [] num = 7 -> Unit("NEW_TOKEN")
      [] num \in 8..15 -> Carry("STREAM", num)
      [] num = 16 -> Unit("MAX_DATA")
      [] num = 17 -> Unit("MAX_STREAM_DATA")
      [] num \in 18..19 -> Carry("MAX_STREAMS", num)
      [] num = 20 -> Unit("DATA_BLOCKED")
      [] num = 21 -> Unit("STREAM_DATA_BLOCKED")
      [] num \in 22..23 -> Carry("STREAMS_BLOCKED", num)
      [] num = 24 -> Unit("NEW_CONNECTION_ID")
      [] num = 25 -> Unit("RETIRE_CONNECTION_ID")
      [] num = 26 -> Unit("PATH_CHALLENGE")
      [] num = 27 -> Unit("PATH_RESPONSE")
      [] num \in 28..29 -> Carry("CONNECTION_CLOSE", num)
      [] num = 30 -> Unit("HANDSHAKE_DONE")
      [] OTHER -> Carry("UNKNOWN", num)

\* mutation of to_u8: STOP_SENDING answers the byte of RESET_STREAM
to_u8_Slip(f) ==
    CASE f.tag = "PADDING" -> 0
      [] f.tag = "PING" -> 1
      [] f.tag = "ACK" -> f.n
      [] f.tag = "RESET_STREAM" -> 4
      [] f.tag = "STOP_SENDING" -> 4
      [] f.tag = "CRYPTO" -> 6
      [] f.tag = "NEW_TOKEN" -> 7
      [] f.tag = "STREAM" -> f.n
      [] f.tag = "MAX_DATA" -> 16
      [] f.tag = "MAX_STREAM_DATA" -> 17
      [] f.tag = "MAX_STREAMS" -> f.n
      [] f.tag = "DATA_BLOCKED" -> 20
      [] f.tag = "STREAM_DATA_BLOCKED" -> 21
      [] f.tag = "STREAMS_BLOCKED" -> f.n
      [] f.tag = "NEW_CONNECTION_ID" -> 24
      [] f.tag = "RETIRE_CONNECTION_ID" -> 25
      [] f.tag = "PATH_CHALLENGE" -> 26
      [] f.tag = "PATH_RESPONSE" -> 27
      [] f.tag = "CONNECTION_CLOSE" -> f.n
      [] f.tag = "HANDSHAKE_DONE" -> 30
      [] f.tag = "UNKNOWN" -> f.n

to_u8(f) ==
    CASE f.tag = "PADDING" -> 0
      [] f.tag = "PING" -> 1
      [] f.tag = "ACK" -> f.n
      [] f.tag = "RESET_STREAM" -> 4
      [] f.tag = "STOP_SENDING" -> 5
      [] f.tag = "CRYPTO" -> 6
      [] f.tag = "NEW_TOKEN" -> 7
      [] f.tag = "STREAM" -> f.n
      [] f.tag = "MAX_DATA" -> 16
      [] f.tag = "MAX_STREAM_DATA" -> 17
      [] f.tag = "MAX_STREAMS" -> f.n
      [] f.tag = "DATA_BLOCKED" -> 20
      [] f.tag = "STREAM_DATA_BLOCKED" -> 21
      [] f.tag = "STREAMS_BLOCKED" -> f.n
      [] f.tag = "NEW_CONNECTION_ID" -> 24
      [] f.tag = "RETIRE_CONNECTION_ID" -> 25
      [] f.tag = "PATH_CHALLENGE" -> 26
      [] f.tag = "PATH_RESPONSE" -> 27
      [] f.tag = "CONNECTION_CLOSE" -> f.n
      [] f.tag = "HANDSHAKE_DONE" -> 30
      [] f.tag = "UNKNOWN" -> f.n

\* a byte standing in a chain of conversions
AByte(b) == [tag |-> "u8", n |-> b]

(***************************************************************************)
(* VarInt::decode (varint.rs).                                             *)
(***************************************************************************)
VarIntOf(kind, val) == [kind |-> kind, val |-> val]

\* mutation of decode: the two length bits are not removed
decode_NoMask(bytes) ==
    IF Len(bytes) = 0 THEN IndexPanic(0, 0)
    ELSE
    LET v0 == At(bytes, 0)
        prefix == Shr(v0, 6)
        length == Shl(1, prefix)
        v == v0
    IN  CASE length = 1 -> VarIntOf("U8", Wide(v))
          [] length \in {2, 4, 8} ->
               IF Len(bytes) < length THEN IndexPanic(Len(bytes), Len(bytes))
               ELSE VarIntOf(CASE length = 2 -> "U16"
                               [] length = 4 -> "U32"
                               [] length = 8 -> "U64",
                             from_be_bytes(<<v>> \o Slice(bytes, 1, length)))
          [] OTHER -> VarIntOf("Unknown", Wide(length))

decode(bytes) ==
    IF Len(bytes) = 0 THEN IndexPanic(0, 0)
    ELSE
    LET v0 == At(bytes, 0)
        prefix == Shr(v0, 6)
        length == Shl(1, prefix)
        v == BitAnd(v0, 63)
    IN  CASE length = 1 -> VarIntOf("U8", Wide(v))
          [] length \in {2, 4, 8} ->
               IF Len(bytes) < length THEN IndexPanic(Len(bytes), Len(bytes))
               ELSE VarIntOf(CASE length = 2 -> "U16"
                               [] length = 4 -> "U32"
                               [] length = 8 -> "U64",
                             from_be_bytes(<<v>> \o Slice(bytes, 1, length)))
          [] OTHER -> VarIntOf("Unknown", Wide(length))

(***************************************************************************)
(* LongPacketType and LongHeader::from_slice (packet.rs).                  *)
(***************************************************************************)
\* impl From<u8> for LongPacketType
LongPacketType_from(value) ==
    CASE value = 0 -> Unit("Inital")
      [] value = 1 -> Unit("ZeroRTT")
      [] value = 2 -> Unit("Handshake")
      [] value = 3 -> Unit("Retry")
      [] OTHER -> Carry("Unknown", value)

HexDigit(d) ==
    <<"0", "1", "2", "3", "4", "5", "6", "7",
      "8", "9", "a", "b", "c", "d", "e", "f">>[d + 1]

\* format!("{:x}", first) of a u8: lower case, no leading zero
LowerHex(b) ==
    IF b < 16 THEN <<HexDigit(b)>> ELSE <<HexDigit(b \div 16), HexDigit(b % 16)>>

\* what from_slice has written to standard output when it returns or panics
from_slice_prints(b) ==
    IF Len(b) = 0 THEN <<>> ELSE <<LowerHex(At(b, 0))>>

\* mutation of ReadCid: the cursor is not advanced past the length byte
ReadCid_NoAdvance(b, pos) ==
    IF pos >= Len(b) THEN IndexPanic(pos, Len(b))
    ELSE
    LET cid_len == At(b, pos)
        start == pos
    IN  IF start + cid_len > Len(b) THEN RangePanic(start + cid_len, Len(b))
        ELSE [kind |-> "cid", length |-> cid_len,
              id |-> Slice(b, start, start + cid_len), pos |-> start + cid_len]

\* one connection ID at the cursor: its length byte, its bytes, the cursor
\* after it (the same four statements for the DCID and for the SCID)
ReadCid(b, pos) ==
    IF pos >= Len(b) THEN IndexPanic(pos, Len(b))
    ELSE
    LET cid_len == At(b, pos)
        start == pos + 1
    IN  IF start + cid_len > Len(b) THEN RangePanic(start + cid_len, Len(b))
        ELSE [kind |-> "cid", length |-> cid_len,
              id |-> Slice(b, start, start + cid_len), pos |-> start + cid_len]

from_slice(b) ==
    IF Len(b) = 0 THEN IndexPanic(0, 0)
    ELSE
    LET first == At(b, 0)
        header_form == BitAnd(first, 128)
    IN
    IF header_form = 0 THEN TodoPanic("not yet implemented: Short header")
    ELSE IF Len(b) < 5 THEN IndexPanic(Len(b), Len(b))
    ELSE
    LET version == from_be_bytes(<<At(b, 1), At(b, 2), At(b, 3), At(b, 4)>>)
    IN
    IF version = Zero
    THEN TodoPanic("not yet implemented: Version negotiation packet")
    ELSE
    LET dcid == ReadCid(b, 5)
    IN
    IF dcid.kind = "panic" THEN dcid
    ELSE
    LET scid == ReadCid(b, dcid.pos)
    IN
    IF scid.kind = "panic" THEN scid
    ELSE
    [kind |-> "LongHeader",
     fixed_bit |-> (BitAnd(first, 64) = 64),
     ptype |-> LongPacketType_from(BitAnd(first, 48)),
     reserved_bits |-> BitAnd(first, 12),
     packet_number_length |-> BitAnd(first, 3) + 1,
     version |-> version,
     destination_connection_id_length |-> dcid.length,
     destination_connection_id |-> dcid.id,
     source_connection_id_length |-> scid.length,
     source_connection_id |-> scid.id,
     len |-> scid.pos]

(***************************************************************************)
(* Inputs.                                                                 *)
(***************************************************************************)
\* n bytes, all different for n < 256, that depend on the seed s
Fill(n, s) == [i \in 1..n |-> (s + 37 * i) % 256]

Prefixes(s) == {SubSeq(s, 1, k) : k \in 0..Len(s)}

\* the encodings of RFC 9000, appendix A.1
RfcVarInts == {<<194, 25, 124, 94, 255, 20, 232, 140>>,
               <<157, 127, 62, 125>>, <<123, 189>>, <<64, 37>>, <<37>>}

VarFirst == {0, 63, 64, 127, 128, 191, 192, 255}
VarSeeds == {0, 219}

VarIntBuffers ==
    UNION {Prefixes(r) : r \in RfcVarInts}
    \cup {<<f>> \o Fill(n, s) : f \in VarFirst, n \in 0..MaxTail, s \in VarSeeds}

HeaderFirst == {195, 128, 211, 236, 255, 67}
HeaderVersions == {<<0, 0, 0, 1>>, <<0, 0, 0, 0>>, <<255, 0, 0, 29>>,
                   <<107, 51, 67, 207>>}
CidLengths == {0, 1, 8, 20, 21}

\* byte 0, version, DCID length, DCID, SCID length, SCID
HeaderBytes(b0, ver, dl, sl) ==
    <<b0>> \o ver \o <<dl>> \o Fill(dl, 10) \o <<sl>> \o Fill(sl, 150)

\* a long header, the start of its payload, cut anywhere
HeaderBuffers ==
    UNION {Prefixes(HeaderBytes(b0, ver, dl, sl) \o Fill(x, 77)) :
             b0 \in HeaderFirst, ver \in HeaderVersions,
             dl \in CidLengths, sl \in CidLengths, x \in {MaxExtra}}

Buffers == VarIntBuffers \cup HeaderBuffers

NotCalled == [kind |-> "none"]

(***************************************************************************)
(* The state machine.                                                      *)
(***************************************************************************)
Init ==
    /\ vres = NotCalled
    /\ hres = NotCalled
    /\ stdout = <<>>
    /\ \/ /\ target = "FrameType"
          /\ chain \in {<<AByte(b)>> : b \in U8} \cup {<<f>> : f \in FrameType}
          /\ buf = <<>>
       \/ /\ target = "slice"
          /\ chain = <<>>
          /\ buf \in Buffers

Last(s) == s[Len(s)]

\* FrameType::from_u8 applied to the byte at the end of the chain
FromU8 ==
    /\ target = "FrameType"
    /\ Len(chain) < MaxChain
    /\ Last(chain).tag = "u8"
    /\ chain' = Append(chain, from_u8(Last(chain).n))
    /\ UNCHANGED <<target, buf, vres, hres, stdout>>

\* FrameType::to_u8 applied to the value at the end of the chain
ToU8 ==
    /\ target = "FrameType"
    /\ Len(chain) < MaxChain
    /\ Last(chain).tag # "u8"
    /\ chain' = Append(chain, AByte(to_u8(Last(chain))))
    /\ UNCHANGED <<target, buf, vres, hres, stdout>>

\* VarInt::decode(buf)
Decode ==
    /\ target = "slice"
    /\ vres = NotCalled
    /\ vres' = decode(buf)
    /\ UNCHANGED <<target, chain, buf, hres, stdout>>

\* LongHeader::from_slice(buf)
FromSlice ==
    /\ target = "slice"
    /\ hres = NotCalled
    /\ hres' = from_slice(buf)
    /\ stdout' = stdout \o from_slice_prints(buf)
    /\ UNCHANGED <<target, chain, buf, vres>>

Next == FromU8 \/ ToU8 \/ Decode \/ FromSlice

Spec == Init /\ [][Next]_vars

(***************************************************************************)
(* Arithmetic used to state the properties: the inverse of from_be_bytes,  *)
(* by long division of the limbs.                                          *)
(***************************************************************************)
\* quotient (limbs 1..i) and remainder of the number made of limbs 1..i of n
RECURSIVE QuotRem(_, _, _)
QuotRem(n, d, i) ==
    IF i = 0 THEN [q |-> <<>>, r |-> 0]
    ELSE LET p == QuotRem(n, d, i - 1)
             cur == p.r * Base + n[i]
         IN  [q |-> Append(p.q, cur \div d), r |-> cur % d]

\* the k low-order bytes of n, most significant first
RECURSIVE to_be_bytes(_, _)
to_be_bytes(n, k) ==
    IF k = 0 THEN <<>>
    ELSE LET qr == QuotRem(n, 256, NLimbs)
         IN  Append(to_be_bytes(qr.q, k - 1), qr.r)

\* n < 256^k
RECURSIVE FitsBytes(_, _)
FitsBytes(n, k) ==
    IF k = 0 THEN n = Zero ELSE FitsBytes(QuotRem(n, 256, NLimbs).q, k - 1)

\* the length that the two high bits of the first byte declare
DeclaredLength(b) ==
    CASE b[1] \div 64 = 0 -> 1
      [] b[1] \div 64 = 1 -> 2
      [] b[1] \div 64 = 2 -> 4
      [] b[1] \div 64 = 3 -> 8

WidthKind(length) ==
    CASE length = 1 -> "U8" [] length = 2 -> "U16"
      [] length = 4 -> "U32" [] length = 8 -> "U64"

RfcExample == <<194, 25, 124, 94, 255, 20, 232, 140>>
\* 151288809941952652
RfcExampleValue == <<0, 151288, 809941, 952652>>

SampleHeader == <<195, 0, 0, 0, 1, 8>> \o Fill(8, 10) \o <<0>>

\* the carried byte lies in the byte range of the variant
InVariantRange(f) ==
    CASE f.tag = "ACK" -> f.n \in 2..3
      [] f.tag = "STREAM" -> f.n \in 8..15
      [] f.tag = "MAX_STREAMS" -> f.n \in 18..19
      [] f.tag = "STREAMS_BLOCKED" -> f.n \in 22..23
      [] f.tag = "CONNECTION_CLOSE" -> f.n \in 28..29
      [] f.tag = "UNKNOWN" -> f.n \in 31..255
      [] OTHER -> TRUE

\* well-formed long headers: form bit set, version not 0, IDs of at most 20 bytes
ValidHeaders ==
    {HeaderBytes(b0, ver, dl, sl) :
       b0 \in {x \in HeaderFirst : x >= 128},
       ver \in HeaderVersions \ {<<0, 0, 0, 0>>},
       dl \in {x \in CidLengths : x <= MaxCidLen},
       sl \in {x \in CidLengths : x <= MaxCidLen}}

\* buf is a valid long header cut short
IsTruncatedHeader ==
    \E h \in ValidHeaders : Len(buf) < Len(h) /\ buf = SubSeq(h, 1, Len(buf))

(***************************************************************************)
(* FrameType                                                               *)
(***************************************************************************)
\* C1: for every byte b, to_u8(from_u8(b)) = b; the bytes 0x02 and 0x03 become
\* two different ACK values, each with bit 0 of its byte.
C1_ByteRoundTrip ==
    /\ from_u8(2) # from_u8(3)
    /\ (target = "FrameType" /\ chain[1].tag = "u8") =>
         /\ Len(chain) >= 2 /\ chain[1].n \in 2..3 =>
              chain[2].tag = "ACK" /\ chain[2].n % 2 = chain[1].n % 2
         /\ Len(chain) >= 3 => chain[3].tag = "u8" /\ chain[3].n = chain[1].n

C1_Witness ==
    /\ target = "FrameType"
    /\ Len(chain) >= 3
    /\ chain[1] = AByte(3)
    /\ chain[2].tag = "ACK"
    /\ chain[3] = AByte(3)

\* C2 as stated: from_u8(to_u8(f)) = f for every value f the enum can hold,
\* whatever byte a payload-carrying variant carries.
C2_AnyValueRoundTrip ==
    (target = "FrameType" /\ chain[1].tag # "u8" /\ Len(chain) >= 3) =>
        chain[3] = chain[1]

\* C2 as amended: from_u8(to_u8(f)) = f for every value f that carries nothing
\* or carries a byte of the range of its variant.
C2_InRangeRoundTrip ==
    (/\ target = "FrameType"
     /\ chain[1].tag # "u8"
     /\ InVariantRange(chain[1])
     /\ Len(chain) >= 3) =>
        chain[3] = chain[1]

C2_Witness ==
    /\ target = "FrameType"
    /\ Len(chain) >= 3
    /\ chain[1] = Carry("ACK", 3)
    /\ chain[2] = AByte(3)
    /\ chain[3] = Carry("ACK", 3)

(***************************************************************************)
(* VarInt::decode                                                          *)
(***************************************************************************)
\* C3: on a buffer that holds the declared number of bytes, decode returns the
\* width variant that bytes[0] >> 6 selects, never Unknown; its value is the
\* big-endian number of bytes[0] & 0x3f and the next length-1 bytes; the
\* example of RFC 9000 decodes to 151288809941952652.
C3_DecodeValue ==
    (/\ vres.kind # "none"
     /\ Len(buf) >= 1
     /\ Len(buf) >= DeclaredLength(buf)) =>
        LET length == DeclaredLength(buf)
        IN  /\ vres.kind = WidthKind(length)
            /\ FitsBytes(vres.val, length)
            /\ to_be_bytes(vres.val, length)
                 = <<buf[1] % 64>> \o SubSeq(buf, 2, length)
            /\ buf = RfcExample => vres.val = RfcExampleValue

C3_Witness ==
    /\ buf = RfcExample
    /\ vres.kind = "U64"
    /\ vres.val = RfcExampleValue

\* C4: on a buffer shorter than the length its first byte declares, the empty
\* buffer included, decode ends in a TruncatedInput failure and does not panic.
C4_TruncatedInput ==
    (/\ vres.kind # "none"
     /\ (Len(buf) = 0 \/ Len(buf) < DeclaredLength(buf))) =>
        vres.kind = "TruncatedInput"

(***************************************************************************)
(* LongHeader::from_slice                                                  *)
(***************************************************************************)
\* C5: a DCID or SCID length byte above 20 makes from_slice fail with
\* ConnectionIdTooLong; no header with an ID length above 20 is returned.
C5_ConnectionIdTooLong ==
    /\ hres.kind = "LongHeader" =>
         /\ hres.destination_connection_id_length <= MaxCidLen
         /\ hres.source_connection_id_length <= MaxCidLen
    /\ (/\ hres.kind # "none"
        /\ Len(buf) >= 6
        /\ buf[1] >= 128
        /\ SubSeq(buf, 2, 5) # <<0, 0, 0, 0>>
        /\ \/ buf[6] > MaxCidLen
           \/ /\ Len(buf) >= 7 + buf[6]
              /\ buf[7 + buf[6]] > MaxCidLen) =>
          hres.kind = "ConnectionIdTooLong"

\* C6: on the first k bytes of a valid long header of length L, k < L,
\* from_slice fails with EmptyBuffer (k = 0) or TruncatedHeader, and does not
\* panic.
C6_TruncationError ==
    (hres.kind # "none" /\ IsTruncatedHeader) =>
        hres.kind = IF Len(buf) = 0 THEN "EmptyBuffer" ELSE "TruncatedHeader"

\* C7: the ptype of a decoded header is that of (byte0 & 0x30) >> 4:
\* 0 Initial, 1 ZeroRTT, 2 Handshake, 3 Retry, and never Unknown.
C7_PacketType ==
    hres.kind = "LongHeader" =>
        hres.ptype = CASE (buf[1] \div 16) % 4 = 0 -> Unit("Inital")
                       [] (buf[1] \div 16) % 4 = 1 -> Unit("ZeroRTT")
                       [] (buf[1] \div 16) % 4 = 2 -> Unit("Handshake")
                       [] (buf[1] \div 16) % 4 = 3 -> Unit("Retry")

\* C8: a long-header buffer whose version bytes are all zero is classified as
\* Version-Negotiation, without a panic.
C8_VersionNegotiation ==
    (/\ hres.kind # "none"
     /\ Len(buf) >= 5
     /\ buf[1] >= 128
     /\ SubSeq(buf, 2, 5) = <<0, 0, 0, 0>>) =>
        hres.kind = "VersionNegotiation"

\* C9: a non-empty buffer whose first byte has bit 0x80 clear gets the typed
\* error NotLongHeader, without a panic.
C9_NotLongHeader ==
    (hres.kind # "none" /\ Len(buf) >= 1 /\ buf[1] < 128) =>
        hres.kind = "NotLongHeader"

\* C10: every header that from_slice returns has version = big-endian bytes
\* 1..4, the DCID = buf[6 .. 6+dcid_len] with dcid_len = buf[5], the SCID = the
\* scid_len bytes after the length byte at 6+dcid_len, len = 7 + dcid_len +
\* scid_len <= buffer length, fixed_bit = bit 0x40, reserved_bits = byte0 &
\* 0x0c, packet_number_length = (byte0 & 0x03) + 1; the sample header gives
\* Initial, version 1, DCID length 8, SCID length 0.
C10_HeaderFields ==
    hres.kind = "LongHeader" =>
        /\ Len(buf) >= 7
        /\ LET dl == buf[6]
               sl == buf[7 + dl]
           IN  /\ FitsBytes(hres.version, 4)
               /\ to_be_bytes(hres.version, 4) = SubSeq(buf, 2, 5)
               /\ hres.destination_connection_id_length = dl
               /\ hres.destination_connection_id = SubSeq(buf, 7, 6 + dl)
               /\ hres.source_connection_id_length = sl
               /\ hres.source_connection_id = SubSeq(buf, 8 + dl, 7 + dl + sl)
               /\ hres.len = 7 + dl + sl
               /\ hres.len <= Len(buf)
        /\ hres.fixed_bit = ((buf[1] \div 64) % 2 = 1)
        /\ hres.reserved_bits = 4 * ((buf[1] \div 4) % 4)
        /\ hres.packet_number_length = (buf[1] % 4) + 1
        /\ hres.packet_number_length \in 1..4
        /\ buf = SampleHeader =>
             /\ hres.ptype = Unit("Inital")
             /\ hres.version = Wide(1)
             /\ hres.destination_connection_id_length = 8
             /\ hres.source_connection_id_length = 0

C10_Witness ==
    /\ buf = SampleHeader
    /\ hres.kind = "LongHeader"
    /\ hres.destination_connection_id = Fill(8, 10)
    /\ hres.len = 15

=============================================================================
